---- MODULE Spec2Model ----
(***************************************************************************)
(* Model of src/main.py: an Instagram webhook relay built on FastAPI.      *)
(*                                                                         *)
(*   GET  /webhook  -> verify          (subscription handshake)            *)
(*   POST /webhook  -> webhook         (signed event delivery)             *)
(*                                                                         *)
(* Both handlers are coroutines of one event loop.  A coroutine runs       *)
(* without interruption between two of its await expressions, so the       *)
(* steps of a handler are modelled one by one and the event loop only      *)
(* switches to another request at an await point or when a handler         *)
(* returns.                                                                *)
(***************************************************************************)
EXTENDS Integers, Sequences, FiniteSets, TLC

VARIABLES
    OPENAI_API_KEY,   \* main.py:31, read once at import
    SYSTEM_PROMPT,    \* main.py:32, read once at import
    conversations,    \* main.py:40, defaultdict: known user id -> deque of Turns
    reqs,             \* the HTTP requests: position and locals of each handler
    appended,         \* history of the calls of add_to_history, per user id
    providerLog,      \* history of the requests made to the completion provider
    outbox,           \* history of the calls of send_message
    returned          \* the list a direct caller of get_history got, as it is now

vars == <<OPENAI_API_KEY, SYSTEM_PROMPT, conversations, reqs, appended,
          providerLog, outbox, returned>>

-----------------------------------------------------------------------------
(* Bounds of the model *)

\* HTTP requests received over the life of the process
MaxRequests == 2

\* calls of add_to_history explored by the specification of the store alone
MaxAppends == 11

\* calls of add_to_history, and length of the caller's list, explored by the
\* specification of a direct caller of the store
MaxCallerTurns == 2

-----------------------------------------------------------------------------
(* Configuration and fixed texts *)

VERIFY_TOKEN == "VERIFY_TOKEN"

APP_SECRET == "APP_SECRET"

MAX_CONTEXT_MESSAGES == 10

base_system_prompt == "base_system_prompt"

NotConfiguredText == "server not configured"

EmptyReplyText == "cannot answer now"

ProviderErrorText == "technical problems"

\* the environments the process can be started in: (OPENAI_API_KEY, SYSTEM_PROMPT)
Environments ==
    { <<"sk-key", "">>, <<"sk-key", "custom prompt">>, <<"", "">> }

Users == {"u1", "u2"}

Requests == 1..MaxRequests

-----------------------------------------------------------------------------
(* JSON values and the bodies delivered to POST /webhook *)

EmptyObj == [k \in {} |-> ""]

HasKey(obj, k) == k \in DOMAIN obj

TextFrom(u, t) ==
    [sender |-> [id |-> u], message |-> [mid |-> "m", text |-> t]]

EchoFrom(u, t) ==
    [sender |-> [id |-> u], message |-> [mid |-> "m", text |-> t, is_echo |-> TRUE]]

EditFrom(u) ==
    [sender |-> [id |-> u], message_edit |-> [mid |-> "m"]]

AttachmentFrom(u) ==
    [sender |-> [id |-> u], message |-> [mid |-> "m", attachments |-> "image"]]

NoSender(t) ==
    [message |-> [mid |-> "m", text |-> t]]

NotJson == [syntax |-> "invalid", value |-> EmptyObj]

JsonArray == [syntax |-> "array", value |-> EmptyObj]

JsonObject(obj) == [syntax |-> "object", value |-> obj]

\* {"entry": [{"messaging": [...]}, ...]}, one element of entry per element of batches
Delivery(batches) ==
    JsonObject([entry |-> [k \in DOMAIN batches |-> [id |-> "page", messaging |-> batches[k]]]])

Bodies ==
    { NotJson,
      JsonArray,
      JsonObject([object |-> "instagram"]),
      JsonObject([entry |-> <<>>]),
      JsonObject([entry |-> <<[id |-> "page"]>>]),
      Delivery(<< <<TextFrom("u1", "hi")>> >>),
      Delivery(<< <<TextFrom("u2", "hello")>> >>),
      Delivery(<< <<EchoFrom("u1", "re"), EditFrom("u1"), TextFrom("u1", "price?")>> >>),
      Delivery(<< <<AttachmentFrom("u1")>> >>),
      Delivery(<< <<NoSender("x"), TextFrom("u1", "hi")>> >>),
      Delivery(<< <<TextFrom("u1", "one")>>, <<TextFrom("u2", "two")>> >>),
      Delivery(<< <<TextFrom("u1", "first"), TextFrom("u2", "second")>> >>) }

-----------------------------------------------------------------------------
(* Signature of a delivery *)

\* hmac.new(key, body, sha256).hexdigest(), idealised: no two inputs collide
HmacSha256Hex(key, body) == <<key, body>>

NoDigest == <<"", NotJson>>

expected_signature(raw_body) ==
    [ascii |-> TRUE, prefix |-> "sha256=", hex |-> HmacSha256Hex(APP_SECRET, raw_body)]

\* the values of the x-hub-signature-256 header tried for a body: the right one,
\* none (""), the signature of another body, one with a non-ASCII character
SignatureHeaders(raw_body) ==
    { expected_signature(raw_body),
      [ascii |-> TRUE, prefix |-> "", hex |-> NoDigest],
      [ascii |-> TRUE, prefix |-> "sha256=", hex |-> HmacSha256Hex(APP_SECRET, NotJson)],
      [ascii |-> FALSE, prefix |-> "sha256=", hex |-> NoDigest] }

\* hmac.compare_digest on two str: TypeError unless both are ASCII
compare_digest(a, b) ==
    IF a.ascii /\ b.ascii
    THEN [raised |-> FALSE, equal |-> (a = b)]
    ELSE [raised |-> TRUE, equal |-> FALSE]

-----------------------------------------------------------------------------
(* The conversation store *)

Turn(role, content) == [role |-> role, content |-> content]

DequeAppendNoEvict(q, x) == Append(q, x)

\* deque(maxlen=MAX_CONTEXT_MESSAGES).append: a full deque drops its oldest element
DequeAppend(q, x) ==
    IF Len(q) >= MAX_CONTEXT_MESSAGES THEN Append(Tail(q), x) ELSE Append(q, x)

\* conversations[user_id] of a defaultdict: a missing key is created empty
Lookup(convs, user_id) ==
    [u \in DOMAIN convs \cup {user_id} |->
        IF u \in DOMAIN convs THEN convs[u] ELSE <<>>]

add_to_historyOneKey(convs, user_id, role, content) ==
    LET key == CHOOSE u \in Users : TRUE
        store == Lookup(convs, key)
    IN  [store EXCEPT ![key] = DequeAppend(@, Turn(role, content))]

add_to_history(convs, user_id, role, content) ==
    LET c == Lookup(convs, user_id)
    IN  [c EXCEPT ![user_id] = DequeAppend(c[user_id], Turn(role, content))]

get_history(convs, user_id) ==
    LET c == Lookup(convs, user_id)
    IN  [store |-> c, result |-> c[user_id]]

-----------------------------------------------------------------------------
(* External collaborators: the completion provider and the messaging API *)

\* message.content of a completion: None, or a text; core is the text without
\* its leading and trailing whitespace, padded tells whether it had any
Contents ==
    { [none |-> TRUE,  padded |-> FALSE, core |-> ""],
      [none |-> FALSE, padded |-> FALSE, core |-> ""],
      [none |-> FALSE, padded |-> TRUE,  core |-> ""],
      [none |-> FALSE, padded |-> FALSE, core |-> "we sell soap"],
      [none |-> FALSE, padded |-> TRUE,  core |-> "we sell soap"] }

\* client.chat.completions.create(...): raises, or returns a completion
ProviderOutcomes ==
    { [raises |-> TRUE, content |-> [none |-> TRUE, padded |-> FALSE, core |-> ""]] }
    \cup { [raises |-> FALSE, content |-> c] : c \in Contents }

\* str.strip()
Strip(content) == content.core

\* what happened to a provider call: "error" (the call raised, or its result could
\* not be read), "empty" (no text but whitespace) or "ok"
OutcomeKind(outcome) ==
    IF outcome.raises \/ outcome.content.none THEN "error"
    ELSE IF outcome.content.core = "" THEN "empty"
    ELSE "ok"

\* requests.post(url, json=payload): returns whatever the status, or raises
SendOutcomes == {"delivered", "refused", "raises"}

-----------------------------------------------------------------------------
(* Requests *)

NoResponse == [code |-> 0, kind |-> "", content |-> ""]

JsonStatus(s) == [code |-> 200, kind |-> "json", content |-> s]

\* what the server answers when an exception leaves a handler
ServerError == [code |-> 500, kind |-> "text", content |-> "Internal Server Error"]

PlainText(code, content) == [code |-> code, kind |-> "text", content |-> content]

Fresh ==
    [pc |-> "fresh", method |-> "", params |-> EmptyObj, raw_body |-> NotJson,
     signature |-> expected_signature(NotJson), i |-> 0, sender_id |-> "",
     text |-> "", reply_text |-> "", messages |-> <<>>, response |-> NoResponse]

Closed == [Fresh EXCEPT !.pc = "closed"]

\* the await expressions of webhook
AwaitPointsAsyncProvider == {"await_body", "provider"}

AwaitPoints == {"await_body"}

HandlerSteps ==
    {"await_body", "parse", "loop", "generate", "provider", "record", "send", "done"}

\* request q is in the middle of a run of its coroutine; the run that returns
\* from the handler also writes the response
Running(q) == reqs[q].pc \in HandlerSteps \ AwaitPoints

\* the event loop can run request r: no other coroutine is in the middle of a run
CanRun(r) == \A q \in Requests \ {r} : ~Running(q)

\* requests arrive in the order of their numbers
NextToArrive(r) ==
    reqs[r].pc = "fresh" /\ (IF r = 1 THEN TRUE ELSE reqs[r - 1].pc # "fresh")

\* no call of get_history outside the handlers has been made
NoList == [op |-> "", user |-> "", list |-> <<>>]

Init ==
    /\ \E env \in Environments :
          /\ OPENAI_API_KEY = env[1]
          /\ SYSTEM_PROMPT = env[2]
    /\ conversations = [u \in {} |-> <<>>]
    /\ reqs = [r \in Requests |-> Fresh]
    /\ appended = [u \in Users |-> <<>>]
    /\ providerLog = <<>>
    /\ outbox = <<>>
    /\ returned = NoList

-----------------------------------------------------------------------------
(* GET /webhook *)

\* request.query_params.get(k): <<v>>, or <<>> for None
ParamGet(params, k) == IF HasKey(params, k) THEN <<params[k]>> ELSE <<>>

QueryParams ==
    { [k \in ks |-> IF k = "hub.mode" THEN mt[1]
                  ELSE IF k = "hub.verify_token" THEN mt[2] ELSE "XYZ123"] :
        ks \in SUBSET {"hub.mode", "hub.verify_token", "hub.challenge"},
        mt \in {"subscribe", "unsubscribe"} \X {VERIFY_TOKEN, "wrong token"} }

\* PlainTextResponse(None) has an empty body
Render(challenge) == IF challenge = <<>> THEN "" ELSE challenge[1]

verifyIgnoringMode(params) ==
    IF ParamGet(params, "hub.verify_token") = <<VERIFY_TOKEN>>
    THEN PlainText(200, Render(ParamGet(params, "hub.challenge")))
    ELSE PlainText(403, "Verification failed")

verify(params) ==
    IF ParamGet(params, "hub.mode") = <<"subscribe">>
       /\ ParamGet(params, "hub.verify_token") = <<VERIFY_TOKEN>>
    THEN PlainText(200, Render(ParamGet(params, "hub.challenge")))
    ELSE PlainText(403, "Verification failed")

\* verify has no await: the request is answered in one run
Get(r) ==
    /\ NextToArrive(r)
    /\ CanRun(r)
    /\ \E params \in QueryParams :
          reqs' = [reqs EXCEPT ![r] = [@ EXCEPT !.pc = "done", !.method = "GET",
                                                !.params = params,
                                                !.response = verify(params)]]
    /\ UNCHANGED <<OPENAI_API_KEY, SYSTEM_PROMPT, conversations, appended,
                   providerLog, outbox, returned>>

-----------------------------------------------------------------------------
(* POST /webhook *)

\* what no step of webhook changes
Others == <<OPENAI_API_KEY, SYSTEM_PROMPT, returned>>

\* a delivery arrives: webhook starts and waits for the body (main.py:70)
Post(r) ==
    /\ NextToArrive(r)
    /\ CanRun(r)
    /\ reqs' = [reqs EXCEPT ![r] = [@ EXCEPT !.pc = "await_body", !.method = "POST"]]
    /\ UNCHANGED <<Others, conversations, appended, providerLog, outbox>>

\* main.py:70-78: the body has come, the header is read and compared
CheckSignature(r) ==
    /\ reqs[r].pc = "await_body"
    /\ CanRun(r)
    /\ \E raw_body \in Bodies : \E signature \in SignatureHeaders(raw_body) :
          LET cmp == compare_digest(signature, expected_signature(raw_body))
              req == [reqs[r] EXCEPT !.raw_body = raw_body, !.signature = signature]
          IN  reqs' = [reqs EXCEPT ![r] =
                IF cmp.raised
                THEN [req EXCEPT !.pc = "done", !.response = ServerError]
                ELSE IF ~cmp.equal
                THEN [req EXCEPT !.pc = "done", !.response = JsonStatus("bad signature")]
                ELSE [req EXCEPT !.pc = "parse"]]
    /\ UNCHANGED <<Others, conversations, appended, providerLog, outbox>>

\* json.loads(raw_body.decode("utf-8"))
json_loads(raw_body) ==
    [raised |-> raw_body.syntax = "invalid", data |-> raw_body]

\* data["entry"][0]; entry.get("messaging", [])
FirstMessaging(data) ==
    IF data.syntax # "object" \/ ~HasKey(data.value, "entry")
       \/ Len(data.value.entry) = 0
    THEN [raised |-> TRUE, messaging |-> <<>>]
    ELSE LET entry == data.value.entry[1]
         IN  [raised |-> FALSE,
              messaging |-> IF HasKey(entry, "messaging") THEN entry.messaging ELSE <<>>]

\* the list the loop of webhook runs over
Messaging(raw_body) == FirstMessaging(json_loads(raw_body).data).messaging

\* main.py:80-85
Parse(r) ==
    /\ reqs[r].pc = "parse"
    /\ CanRun(r)
    /\ LET loaded == json_loads(reqs[r].raw_body)
       IN  reqs' = [reqs EXCEPT ![r] =
                IF loaded.raised
                THEN [@ EXCEPT !.pc = "done", !.response = ServerError]
                ELSE IF FirstMessaging(loaded.data).raised
                THEN [@ EXCEPT !.pc = "done", !.response = JsonStatus("ok")]
                ELSE [@ EXCEPT !.pc = "loop", !.i = 1]]
    /\ UNCHANGED <<Others, conversations, appended, providerLog, outbox>>

\* msg.get("message") is truthy
HasMessage(msg) == HasKey(msg, "message") /\ DOMAIN msg.message # {}

IsEchoNever(message) == FALSE

\* message.get("is_echo") is truthy
IsEcho(message) == HasKey(message, "is_echo") /\ message.is_echo

\* msg["sender"]["id"] raises KeyError
NoSenderId(msg) == ~HasKey(msg, "sender") \/ ~HasKey(msg.sender, "id")

\* message.get("text", "")
TextOf(message) == IF HasKey(message, "text") THEN message.text ELSE ""

Tagged(r, i, turn) == [role |-> turn.role, content |-> turn.content, req |-> r, i |-> i]

\* main.py:87-105: one pass of the loop, up to the recording of the inbound text
LoopStep(r) ==
    /\ reqs[r].pc = "loop"
    /\ CanRun(r)
    /\ LET req == reqs[r]
           messaging == Messaging(req.raw_body)
       IN  IF req.i > Len(messaging)
           THEN /\ reqs' = [reqs EXCEPT ![r] = [@ EXCEPT !.pc = "done", !.response = JsonStatus("ok")]]
                /\ UNCHANGED <<conversations, appended>>
           ELSE LET msg == messaging[req.i]
                IN  IF ~HasMessage(msg)
                    THEN /\ reqs' = [reqs EXCEPT ![r] = [@ EXCEPT !.i = @ + 1]]
                         /\ UNCHANGED <<conversations, appended>>
                    ELSE IF IsEcho(msg.message)
                    THEN /\ reqs' = [reqs EXCEPT ![r] = [@ EXCEPT !.i = @ + 1]]
                         /\ UNCHANGED <<conversations, appended>>
                    ELSE IF NoSenderId(msg)
                    THEN /\ reqs' = [reqs EXCEPT ![r] = [@ EXCEPT !.pc = "done", !.response = JsonStatus("ok")]]
                         /\ UNCHANGED <<conversations, appended>>
                    ELSE LET sender_id == msg.sender.id
                             text == TextOf(msg.message)
                         IN  /\ conversations' = add_to_history(conversations, sender_id, "user", text)
                             /\ appended' = [appended EXCEPT ![sender_id] =
                                    Append(@, Tagged(r, req.i, Turn("user", text)))]
                             /\ reqs' = [reqs EXCEPT ![r] = [@ EXCEPT !.pc = "generate",
                                            !.sender_id = sender_id, !.text = text]]
    /\ UNCHANGED <<Others, providerLog, outbox>>

NotConfiguredNever(key) == FALSE

\* not OPENAI_API_KEY
NotConfigured(key) == key = ""

\* SYSTEM_PROMPT or base_system_prompt
system_prompt == IF SYSTEM_PROMPT # "" THEN SYSTEM_PROMPT ELSE base_system_prompt

ContextMessagesSystemLast(prompt, history) == Append(history, Turn("system", prompt))

\* main.py:177: [{"role": "system", "content": system_prompt}] + history
ContextMessages(prompt, history) == <<Turn("system", prompt)>> \o history

\* main.py:168-183: generate_ai_reply up to the call of the provider
Generate(r) ==
    /\ reqs[r].pc = "generate"
    /\ CanRun(r)
    /\ IF NotConfigured(OPENAI_API_KEY)
       THEN /\ reqs' = [reqs EXCEPT ![r] = [@ EXCEPT !.pc = "record",
                                                     !.reply_text = NotConfiguredText]]
            /\ UNCHANGED <<conversations, providerLog>>
       ELSE LET read == get_history(conversations, reqs[r].sender_id)
                messages == ContextMessages(system_prompt, read.result)
            IN  /\ conversations' = read.store
                /\ reqs' = [reqs EXCEPT ![r] = [@ EXCEPT !.pc = "provider", !.messages = messages]]
                /\ providerLog' = Append(providerLog,
                       [req |-> r, i |-> reqs[r].i, user |-> reqs[r].sender_id,
                        messages |-> messages, outcome |-> "pending"])
    /\ UNCHANGED <<Others, appended, outbox>>

ReplyOfPropagating(outcome) ==
    IF outcome.raises \/ outcome.content.none
    THEN [raised |-> TRUE, text |-> ""]
    ELSE IF Strip(outcome.content) = ""
    THEN [raised |-> FALSE, text |-> EmptyReplyText]
    ELSE [raised |-> FALSE, text |-> Strip(outcome.content)]

\* main.py:179-193: what generate_ai_reply makes of the outcome of the call
ReplyOf(outcome) ==
    IF outcome.raises \/ outcome.content.none
    THEN [raised |-> FALSE, text |-> ProviderErrorText]
    ELSE IF Strip(outcome.content) = ""
    THEN [raised |-> FALSE, text |-> EmptyReplyText]
    ELSE [raised |-> FALSE, text |-> Strip(outcome.content)]

\* position in providerLog of the call request r is waiting for
PendingCall(r) ==
    CHOOSE k \in DOMAIN providerLog :
        providerLog[k].req = r /\ providerLog[k].outcome = "pending"

\* the provider answers, generate_ai_reply returns (or raises into main.py:117)
ProviderReturn(r) ==
    /\ reqs[r].pc = "provider"
    /\ CanRun(r)
    /\ \E outcome \in ProviderOutcomes :
          LET reply == ReplyOf(outcome)
          IN  /\ providerLog' = [providerLog EXCEPT ![PendingCall(r)].outcome = OutcomeKind(outcome)]
              /\ reqs' = [reqs EXCEPT ![r] =
                    IF reply.raised
                    THEN [@ EXCEPT !.pc = "done", !.messages = <<>>, !.response = JsonStatus("ok")]
                    ELSE [@ EXCEPT !.pc = "record", !.messages = <<>>, !.reply_text = reply.text]]
    /\ UNCHANGED <<Others, conversations, appended, outbox>>

RecordReplySkipped(r) ==
    /\ reqs[r].pc = "record"
    /\ CanRun(r)
    /\ reqs' = [reqs EXCEPT ![r] = [@ EXCEPT !.pc = "send"]]
    /\ UNCHANGED <<Others, conversations, appended, providerLog, outbox>>

\* main.py:111
RecordReply(r) ==
    /\ reqs[r].pc = "record"
    /\ CanRun(r)
    /\ LET req == reqs[r]
       IN  /\ conversations' = add_to_history(conversations, req.sender_id, "assistant", req.reply_text)
           /\ appended' = [appended EXCEPT ![req.sender_id] =
                  Append(@, Tagged(r, req.i, Turn("assistant", req.reply_text)))]
           /\ reqs' = [reqs EXCEPT ![r] = [@ EXCEPT !.pc = "send"]]
    /\ UNCHANGED <<Others, providerLog, outbox>>

send_messageRetried(box, r, i, recipient_id, text, result) ==
    LET call == [req |-> r, i |-> i, to |-> recipient_id, text |-> text]
    IN  IF result = "raises" THEN Append(Append(box, call), call) ELSE Append(box, call)

\* main.py:197-208: one requests.post per call, whatever comes of it
send_message(box, r, i, recipient_id, text, result) ==
    Append(box, [req |-> r, i |-> i, to |-> recipient_id, text |-> text])

\* main.py:114-115: the send; an exception of requests.post ends the loop at
\* main.py:117 and the handler returns at main.py:120
Send(r) ==
    /\ reqs[r].pc = "send"
    /\ CanRun(r)
    /\ LET req == reqs[r]
       IN  \E result \in SendOutcomes :
              /\ outbox' = send_message(outbox, r, req.i, req.sender_id, req.reply_text, result)
              /\ reqs' = [reqs EXCEPT ![r] =
                    IF result = "raises"
                    THEN [@ EXCEPT !.pc = "done", !.response = JsonStatus("ok")]
                    ELSE [@ EXCEPT !.pc = "loop", !.i = @ + 1]]
    /\ UNCHANGED <<Others, conversations, appended, providerLog>>

\* the response is written to the connection and the request is over
Close(r) ==
    /\ reqs[r].pc = "done"
    /\ CanRun(r)
    /\ reqs' = [reqs EXCEPT ![r] = Closed]
    /\ UNCHANGED <<Others, conversations, appended, providerLog, outbox>>

Next ==
    \E r \in Requests :
        \/ Get(r)
        \/ Post(r)
        \/ CheckSignature(r)
        \/ Parse(r)
        \/ LoopStep(r)
        \/ Generate(r)
        \/ ProviderReturn(r)
        \/ RecordReply(r)
        \/ Send(r)
        \/ Close(r)

Spec == Init /\ [][Next]_vars

-----------------------------------------------------------------------------
(* The store alone: any sequence of calls of add_to_history *)

StoreTurns == { Turn("user", "a"), Turn("assistant", "b") }

RECURSIVE TotalLen(_, _)
TotalLen(log, us) ==
    IF us = {} THEN 0
    ELSE LET u == CHOOSE x \in us : TRUE
         IN  Len(log[u]) + TotalLen(log, us \ {u})

InitStore ==
    /\ OPENAI_API_KEY = ""
    /\ SYSTEM_PROMPT = ""
    /\ conversations = [u \in {} |-> <<>>]
    /\ reqs = [r \in Requests |-> Fresh]
    /\ appended = [u \in Users |-> <<>>]
    /\ providerLog = <<>>
    /\ outbox = <<>>
    /\ returned = NoList

StoreAppend(user_id, turn) ==
    /\ TotalLen(appended, Users) < MaxAppends
    /\ conversations' = add_to_history(conversations, user_id, turn.role, turn.content)
    /\ appended' = [appended EXCEPT ![user_id] = Append(@, Tagged(0, 0, turn))]
    /\ UNCHANGED <<Others, reqs, providerLog, outbox>>

NextStore == \E user_id \in Users : \E turn \in StoreTurns : StoreAppend(user_id, turn)

SpecStore == InitStore /\ [][NextStore]_vars

-----------------------------------------------------------------------------
(* A direct caller of the store: it appends, reads, and changes what it read *)

\* list(conversations[user_id]): a new list of the dicts the deque holds.  obj is
\* the identity of a dict: the number of the call of add_to_history for that
\* user that made it, 0 for a dict the caller made itself
ListOf(user_id, history) ==
    [op |-> "read", user |-> user_id,
     list |-> [j \in 1..Len(history) |->
                 [obj |-> Len(appended[user_id]) - Len(history) + j,
                  role |-> history[j].role, content |-> history[j].content]]]

StoreRead(user_id) ==
    /\ LET read == get_history(conversations, user_id)
       IN  /\ conversations' = read.store
           /\ returned' = ListOf(user_id, read.result)
    /\ UNCHANGED <<OPENAI_API_KEY, SYSTEM_PROMPT, reqs, appended, providerLog, outbox>>

CallerTurn == [obj |-> 0, role |-> "user", content |-> "extra"]

RemoveAt(list, j) == SubSeq(list, 1, j - 1) \o SubSeq(list, j + 1, Len(list))

\* result.append(...), del result[j], result[j] = ...: the list is the caller's own
CallerChangesList ==
    /\ returned.op # ""
    /\ \/ /\ Len(returned.list) < MaxCallerTurns
          /\ returned' = [returned EXCEPT !.op = "append", !.list = Append(@, CallerTurn)]
       \/ \E j \in DOMAIN returned.list :
             returned' = [returned EXCEPT !.op = "remove", !.list = RemoveAt(@, j)]
       \/ \E j \in DOMAIN returned.list :
             returned' = [returned EXCEPT !.op = "replace", !.list[j] = CallerTurn]
    /\ UNCHANGED <<OPENAI_API_KEY, SYSTEM_PROMPT, conversations, reqs, appended,
                   providerLog, outbox>>

Edits == { [field |-> "content", value |-> "edited"], [field |-> "role", value |-> "system"] }

Edited(turn, edit) ==
    IF edit.field = "content" THEN [turn EXCEPT !.content = edit.value]
    ELSE [turn EXCEPT !.role = edit.value]

\* result[j]["content"] = ... or result[j]["role"] = ...: the dict is the one the
\* deque holds, as long as the deque holds it
CallerEditsTurn ==
    /\ returned.op # ""
    /\ \E j \in DOMAIN returned.list : \E edit \in Edits :
          LET u == returned.user
              o == returned.list[j].obj
              p == o - (Len(appended[u]) - Len(conversations[u]))
          IN  /\ returned' = [returned EXCEPT !.op = "edit", !.list[j] = Edited(@, edit)]
              /\ conversations' =
                    IF o > 0 /\ p >= 1
                    THEN [conversations EXCEPT ![u][p] = Edited(@, edit)]
                    ELSE conversations
    /\ UNCHANGED <<OPENAI_API_KEY, SYSTEM_PROMPT, reqs, appended, providerLog, outbox>>

CallerAppends ==
    /\ TotalLen(appended, Users) < MaxCallerTurns
    /\ \E user_id \in Users : \E turn \in StoreTurns :
          /\ conversations' = add_to_history(conversations, user_id, turn.role, turn.content)
          /\ appended' = [appended EXCEPT ![user_id] = Append(@, Tagged(0, 0, turn))]
    /\ UNCHANGED <<Others, reqs, providerLog, outbox>>

NextCaller ==
    \/ CallerAppends
    \/ \E user_id \in Users : StoreRead(user_id)
    \/ CallerChangesList
    \/ CallerEditsTurn

SpecCaller == InitStore /\ [][NextCaller]_vars

-----------------------------------------------------------------------------
(* Properties *)

\* the stored history of u; a user id the store does not know has none
History(u) == IF u \in DOMAIN conversations THEN conversations[u] ELSE <<>>

\* request r got past the signature check
Verified(r) ==
    /\ reqs[r].method = "POST"
    /\ reqs[r].pc \in {"parse", "loop", "generate", "provider", "record", "send", "done"}
    /\ reqs[r].signature = expected_signature(reqs[r].raw_body)

\* request r was turned away, or failed, at the signature check
Unverified(r) ==
    /\ reqs[r].method = "POST"
    /\ reqs[r].pc \in {"parse", "loop", "generate", "provider", "record", "send", "done"}
    /\ reqs[r].signature # expected_signature(reqs[r].raw_body)

\* nothing was appended, asked of the provider or sent for sub-event i of request r
NoTrace(r, i) ==
    /\ \A u \in Users : \A k \in DOMAIN appended[u] :
          ~(appended[u][k].req = r /\ appended[u][k].i = i)
    /\ \A k \in DOMAIN providerLog : ~(providerLog[k].req = r /\ providerLog[k].i = i)
    /\ \A k \in DOMAIN outbox : ~(outbox[k].req = r /\ outbox[k].i = i)

\* request r appended nothing, asked nothing of the provider and sent nothing
NoEffects(r) ==
    /\ \A u \in Users : \A k \in DOMAIN appended[u] : appended[u][k].req # r
    /\ \A k \in DOMAIN providerLog : providerLog[k].req # r
    /\ \A k \in DOMAIN outbox : outbox[k].req # r

\* C1: a POST whose x-hub-signature-256 header is not the expected signature is
\* answered {"status": "bad signature"} and has no effect on the store, the
\* provider or the outbox.
C1_BadSignatureRejected ==
    \A r \in Requests :
        Unverified(r) =>
            /\ reqs[r].pc = "done"
            /\ reqs[r].response = JsonStatus("bad signature")
            /\ NoEffects(r)

\* C2: a history never holds more than 10 Turns, and after m appends it holds
\* the last min(m, 10) appended Turns in the order of their appends.
C2_BoundedFifoHistory ==
    \A u \in Users :
        LET h == History(u)
            log == appended[u]
            n == IF Len(log) < 10 THEN Len(log) ELSE 10
        IN  /\ Len(h) <= 10
            /\ Len(h) = n
            /\ \A j \in 1..n :
                  h[j] = Turn(log[Len(log) - n + j].role, log[Len(log) - n + j].content)

C2_Witness ==
    \E u \in Users :
        /\ Len(appended[u]) > 10
        /\ Len(History(u)) = 10
        /\ History(u)[1] # Turn(appended[u][1].role, appended[u][1].content)

\* C3: after a failed provider call the history holds the inbound user Turn of
\* the exchange and no assistant Turn for it.
C3_FallbackNotRecorded ==
    \A c \in DOMAIN providerLog :
        LET e == providerLog[c]
        IN  e.outcome \in {"error", "empty"} =>
               /\ \E k \in DOMAIN appended[e.user] :
                     /\ appended[e.user][k].req = e.req
                     /\ appended[e.user][k].i = e.i
                     /\ appended[e.user][k].role = "user"
               /\ \A k \in DOMAIN appended[e.user] :
                     ~ /\ appended[e.user][k].req = e.req
                       /\ appended[e.user][k].i = e.i
                       /\ appended[e.user][k].role = "assistant"

\* C4: after a failed provider call the handler goes on with a fallback text
\* fixed by the kind of failure alone, and a delivery of that text to the
\* sender is attempted.
C4_FallbackDelivered ==
    \A c \in DOMAIN providerLog :
        LET e == providerLog[c]
            fallback == IF e.outcome = "error" THEN ProviderErrorText ELSE EmptyReplyText
        IN  e.outcome \in {"error", "empty"} =>
               \/ /\ reqs[e.req].pc \in {"record", "send"}
                  /\ reqs[e.req].i = e.i
                  /\ reqs[e.req].reply_text = fallback
               \/ \E m \in DOMAIN outbox :
                     outbox[m] = [req |-> e.req, i |-> e.i, to |-> e.user, text |-> fallback]

C4_Witness ==
    \E c \in DOMAIN providerLog : \E m \in DOMAIN outbox :
        /\ providerLog[c].outcome = "error"
        /\ outbox[m] = [req |-> providerLog[c].req, i |-> providerLog[c].i,
                        to |-> providerLog[c].user, text |-> ProviderErrorText]

\* C5: every POST that passes the signature check is answered {"status": "ok"}.
C5_AlwaysAcknowledged ==
    \A r \in Requests :
        (Verified(r) /\ reqs[r].pc = "done") => reqs[r].response = JsonStatus("ok")

\* the Turn recorded by entry e of appended
TurnOf(e) == Turn(e.role, e.content)

SameExchange(a, b) == a.req = b.req /\ a.i = b.i

\* position, in the appends of user e.user, of the user Turn of provider call e
InboundAt(e) ==
    CHOOSE k \in DOMAIN appended[e.user] :
        /\ appended[e.user][k].role = "user"
        /\ appended[e.user][k].req = e.req
        /\ appended[e.user][k].i = e.i

\* C6: the exchanges of one user never interleave, whatever the requests they
\* come from: each user Turn is directly followed by the assistant Turn of the
\* same exchange (or that exchange is the one in progress), and the context of
\* a provider call ends with the whole exchange before it and the inbound Turn.
C6_ExchangesSerialized ==
    /\ \A u \in Users : \A k \in DOMAIN appended[u] :
          LET log == appended[u]
          IN  /\ log[k].role = "user" =>
                    IF k < Len(log)
                    THEN log[k + 1].role = "assistant" /\ SameExchange(log[k], log[k + 1])
                    ELSE /\ reqs[log[k].req].pc \in {"generate", "provider", "record"}
                         /\ reqs[log[k].req].i = log[k].i
                         /\ reqs[log[k].req].sender_id = u
              /\ log[k].role = "assistant" =>
                    /\ k > 1
                    /\ log[k - 1].role = "user"
                    /\ SameExchange(log[k - 1], log[k])
    /\ \A c \in DOMAIN providerLog :
          LET e == providerLog[c]
              log == appended[e.user]
              k == InboundAt(e)
              n == Len(e.messages)
          IN  /\ e.messages[n] = TurnOf(log[k])
              /\ k > 2 =>
                    /\ n > 2
                    /\ e.messages[n - 2] = TurnOf(log[k - 2])
                    /\ e.messages[n - 1] = TurnOf(log[k - 1])
                    /\ log[k - 2].role = "user"
                    /\ log[k - 1].role = "assistant"
                    /\ SameExchange(log[k - 2], log[k - 1])

\* two requests for one user were in flight together: request 2 came second and
\* was served first, and the context of request 1 holds the exchange of request 2
C6_Witness ==
    \E u \in Users : \E c \in DOMAIN providerLog :
        /\ Len(appended[u]) >= 4
        /\ appended[u][1].req = 2
        /\ appended[u][3].req = 1
        /\ providerLog[c].req = 1
        /\ providerLog[c].user = u
        /\ Len(providerLog[c].messages) = 4

\* sub-event msg carries "is_echo": true
FlaggedEcho(msg) ==
    /\ HasKey(msg, "message")
    /\ HasKey(msg.message, "is_echo")
    /\ msg.message.is_echo = TRUE

\* sub-event msg has no "message" block, or one without a "text" field
NoTextPayload(msg) == ~HasKey(msg, "message") \/ ~HasKey(msg.message, "text")

\* C7: an echo sub-event leaves no Turn, no provider call and no send, and its
\* delivery is answered {"status": "ok"}.
C7_EchoIgnored ==
    \A r \in Requests :
        Verified(r) =>
            \A i \in DOMAIN Messaging(reqs[r].raw_body) :
                FlaggedEcho(Messaging(reqs[r].raw_body)[i]) =>
                    /\ NoTrace(r, i)
                    /\ reqs[r].pc = "done" => reqs[r].response = JsonStatus("ok")

\* a delivery whose first sub-event is an echo was run to its end and answered
C7_Witness ==
    \E r \in Requests :
        /\ Verified(r)
        /\ reqs[r].pc = "done"
        /\ reqs[r].response = JsonStatus("ok")
        /\ Len(Messaging(reqs[r].raw_body)) = 3
        /\ FlaggedEcho(Messaging(reqs[r].raw_body)[1])
        /\ reqs[r].i = 4

\* C8: a sub-event without a text-bearing message payload leaves no Turn, no
\* provider call and no send.
C8_NonTextIgnored ==
    \A r \in Requests :
        Verified(r) =>
            \A i \in DOMAIN Messaging(reqs[r].raw_body) :
                NoTextPayload(Messaging(reqs[r].raw_body)[i]) => NoTrace(r, i)

\* C9: without an API key the provider is never called and the history is never
\* read for a call; every reply is the fixed 'not configured' text, and a
\* request that handled a message is answered {"status": "ok"}.
C9_NoKeyNoProviderCall ==
    OPENAI_API_KEY = "" =>
        /\ providerLog = <<>>
        /\ \A r \in Requests :
              /\ reqs[r].pc # "provider"
              /\ reqs[r].messages = <<>>
              /\ reqs[r].pc \in {"record", "send"} => reqs[r].reply_text = NotConfiguredText
              /\ (reqs[r].pc = "done" /\ ~NoEffects(r)) => reqs[r].response = JsonStatus("ok")
        /\ \A u \in Users : \A k \in DOMAIN appended[u] :
              appended[u][k].role = "assistant" => appended[u][k].content = NotConfiguredText
        /\ \A m \in DOMAIN outbox : outbox[m].text = NotConfiguredText

C9_Witness ==
    /\ OPENAI_API_KEY = ""
    /\ \E r \in Requests : \E m \in DOMAIN outbox :
          /\ reqs[r].pc = "done"
          /\ reqs[r].response = JsonStatus("ok")
          /\ outbox[m].req = r
          /\ outbox[m].text = NotConfiguredText

\* the parameters of a GET ask for a subscription with the configured token
GoodHandshake(params) ==
    /\ HasKey(params, "hub.mode")
    /\ params["hub.mode"] = "subscribe"
    /\ HasKey(params, "hub.verify_token")
    /\ params["hub.verify_token"] = VERIFY_TOKEN

\* C10: GET /webhook answers 200 with the value of hub.challenge if hub.mode is
\* "subscribe" and hub.verify_token is the configured token, and 403
\* "Verification failed" otherwise; it changes nothing of the store.
C10_Verification ==
    [][ \A r \in Requests :
          (reqs[r].pc = "fresh" /\ reqs'[r].method = "GET") =>
             /\ reqs'[r].pc = "done"
             /\ IF GoodHandshake(reqs'[r].params)
                THEN /\ reqs'[r].response.code = 200
                     /\ reqs'[r].response.kind = "text"
                     /\ HasKey(reqs'[r].params, "hub.challenge") =>
                           reqs'[r].response.content = reqs'[r].params["hub.challenge"]
                ELSE reqs'[r].response = PlainText(403, "Verification failed")
             /\ UNCHANGED <<conversations, appended, providerLog, outbox>> ]_vars

\* a handshake was answered with its challenge while the store held a conversation
C10_Witness ==
    \E r \in Requests :
        /\ reqs[r].method = "GET"
        /\ reqs[r].pc = "done"
        /\ reqs[r].response = PlainText(200, "XYZ123")
        /\ DOMAIN conversations # {}

\* the step is a call of get_history(u) by the direct caller
ReadStep(u) ==
    /\ returned'.op = "read"
    /\ returned'.user = u
    /\ appended' = appended
    /\ reqs' = reqs

\* C11: reading the history of a user id that never had a Turn appended returns
\* an empty sequence and leaves the store, the set of its user ids included, as
\* it was.
C11_UnseenLookupPure ==
    [][ \A u \in Users :
          (ReadStep(u) /\ appended[u] = <<>>) =>
             /\ returned'.list = <<>>
             /\ conversations' = conversations
             /\ DOMAIN conversations' = DOMAIN conversations ]_vars

\* the step is a change the direct caller makes to the list it got
CallerStep ==
    /\ returned'.op \in {"append", "remove", "replace", "edit"}
    /\ returned' # returned

\* C17: what the caller does to the list it got from get_history, or to a Turn
\* of that list, leaves the stored histories unchanged, and an append to the
\* store leaves the list unchanged.
C17_HistoryIsSnapshot ==
    [][ /\ CallerStep => conversations' = conversations
        /\ appended' # appended => returned' = returned ]_vars

\* the last n elements of s, all of s if it has fewer
LastOf(s, n) == IF Len(s) <= n THEN s ELSE SubSeq(s, Len(s) - n + 1, Len(s))

\* the history stored for the user of provider call e when the call was made:
\* the last 10 Turns appended up to the inbound Turn of the exchange
HistoryAtCall(e) ==
    LET upto == SubSeq(appended[e.user], 1, InboundAt(e))
    IN  LastOf([k \in DOMAIN upto |-> TurnOf(upto[k])], MAX_CONTEXT_MESSAGES)

\* the text of sub-event i of the delivery of request r
InboundText(r, i) ==
    LET message == Messaging(reqs[r].raw_body)[i].message
    IN  IF HasKey(message, "text") THEN message.text ELSE ""

\* C12: a provider request is one system message, then the whole history stored
\* for the user in stored order, and it ends with the user Turn of the inbound
\* text just appended.
C12_ContextIsSystemThenHistory ==
    \A c \in DOMAIN providerLog :
        LET e == providerLog[c]
            n == Len(e.messages)
        IN  /\ n >= 2
            /\ e.messages[1] = Turn("system", IF SYSTEM_PROMPT = "" THEN base_system_prompt
                                              ELSE SYSTEM_PROMPT)
            /\ \A k \in 2..n : e.messages[k].role # "system"
            /\ Tail(e.messages) = HistoryAtCall(e)
            /\ e.outcome = "pending" => Tail(e.messages) = History(e.user)
            /\ e.messages[n].role = "user"
            /\ (reqs[e.req].pc # "closed" /\ reqs[e.req].i = e.i) =>
                  e.messages[n].content = InboundText(e.req, e.i)

\* a call is in progress whose context holds an earlier exchange of the user
C12_Witness ==
    \E c \in DOMAIN providerLog :
        /\ providerLog[c].outcome = "pending"
        /\ Len(providerLog[c].messages) = 4
        /\ providerLog[c].messages[4] = Turn("user", "price?")

\* sub-event msg is a text message that is not an echo and names its sender
TextMessage(msg) ==
    /\ HasKey(msg, "message")
    /\ HasKey(msg.message, "text")
    /\ ~FlaggedEcho(msg)
    /\ HasKey(msg, "sender")
    /\ HasKey(msg.sender, "id")

\* the "messaging" list of an element of "entry"
MessagingOf(entry) == IF HasKey(entry, "messaging") THEN entry.messaging ELSE <<>>

\* the number of entries of log for sub-event i of request r with the given role
\* ("" for a log without roles)
Count(log, r, i, role) ==
    Cardinality({ k \in DOMAIN log :
                    /\ log[k].req = r
                    /\ log[k].i = i
                    /\ role # "" => log[k].role = role })

\* sub-event i of element n of "entry" of request r was handled once: one user
\* Turn, one reply recorded, one send (the handler numbers the sub-events of the
\* first element only)
HandledOnce(r, n, i, msg) ==
    /\ n = 1
    /\ Count(appended[msg.sender.id], r, i, "user") = 1
    /\ Count(appended[msg.sender.id], r, i, "assistant") = 1
    /\ Count(outbox, r, i, "") = 1

\* C13: every text message of a validly signed delivery, in every element of
\* "entry", is handled once and in the order of the delivery (stated for the
\* deliveries whose loop ran to its end).
C13_EveryEntryHandled ==
    \A r \in Requests :
        ( /\ Verified(r)
          /\ reqs[r].pc = "done"
          /\ reqs[r].raw_body.syntax = "object"
          /\ HasKey(reqs[r].raw_body.value, "entry")
          /\ reqs[r].i > Len(Messaging(reqs[r].raw_body)) ) =>
            /\ \A n \in DOMAIN reqs[r].raw_body.value.entry :
                  LET messaging == MessagingOf(reqs[r].raw_body.value.entry[n])
                  IN  \A i \in DOMAIN messaging :
                         TextMessage(messaging[i]) => HandledOnce(r, n, i, messaging[i])
            /\ \A a, b \in DOMAIN outbox :
                  (a < b /\ outbox[a].req = r /\ outbox[b].req = r) => outbox[a].i < outbox[b].i

\* sub-event msg is a message without a sender id
Malformed(msg) == HasMessage(msg) /\ (~HasKey(msg, "sender") \/ ~HasKey(msg.sender, "id"))

\* C14: a malformed sub-event leaves no Turn and no reply, and the well-formed
\* sub-events after it in the delivery are still handled.
C14_MalformedDoesNotAbort ==
    \A r \in Requests :
        (Verified(r) /\ reqs[r].pc = "done") =>
            LET messaging == Messaging(reqs[r].raw_body)
            IN  \A j \in DOMAIN messaging :
                   Malformed(messaging[j]) =>
                      /\ NoTrace(r, j)
                      /\ \A i \in DOMAIN messaging :
                            (i > j /\ TextMessage(messaging[i])) =>
                               /\ Count(appended[messaging[i].sender.id], r, i, "user") = 1
                               /\ Count(outbox, r, i, "") = 1

\* the sends made for sub-event i of request r
SendsOf(r, i) == { k \in DOMAIN outbox : outbox[k].req = r /\ outbox[k].i = i }

\* the send of sub-event i of request r is still to come
SendAhead(r, i) == reqs[r].pc = "send" /\ reqs[r].i = i

\* the send of the current sub-event of request r raised
SendFailed(r) ==
    /\ Verified(r)
    /\ reqs[r].pc = "done"
    /\ SendsOf(r, reqs[r].i) # {}

\* C15: each recorded reply is sent by one call and no more; when the call fails
\* the request is still answered {"status": "ok"} and the two Turns of the
\* exchange stay in the history.
C15_OneSendNoRetry ==
    /\ \A r \in Requests : \A u \in Users : \A k \in DOMAIN appended[u] :
          LET a == appended[u][k]
          IN  (a.req = r /\ a.role = "assistant") =>
                 Cardinality(SendsOf(r, a.i)) = IF SendAhead(r, a.i) THEN 0 ELSE 1
    /\ \A k \in DOMAIN outbox : Cardinality(SendsOf(outbox[k].req, outbox[k].i)) = 1
    /\ \A r \in Requests :
          SendFailed(r) =>
             LET h == History(reqs[r].sender_id)
                 n == Len(h)
             IN  /\ reqs[r].response = JsonStatus("ok")
                 /\ n >= 2
                 /\ h[n - 1] = Turn("user", InboundText(r, reqs[r].i))
                 /\ h[n] = Turn("assistant", reqs[r].reply_text)

\* a send raised after a reply of the provider was recorded
C15_Witness ==
    \E r \in Requests :
        /\ SendFailed(r)
        /\ reqs[r].reply_text = "we sell soap"
        /\ reqs[r].response = JsonStatus("ok")

\* provider call of sub-event i of request r returned a text
ProviderSucceeded(r, i) ==
    \E c \in DOMAIN providerLog :
        /\ providerLog[c].req = r
        /\ providerLog[c].i = i
        /\ providerLog[c].outcome = "ok"

\* the step makes the send numbered k
SendsNow(k) == k \in DOMAIN outbox' /\ k \notin DOMAIN outbox

\* C16: when a reply of the provider is sent, the last Turn of the recipient's
\* history is already the assistant Turn of that exchange, and the text sent is
\* its content.
C16_RecordedBeforeSent ==
    [][ \A k \in DOMAIN outbox' :
           (SendsNow(k) /\ ProviderSucceeded(outbox'[k].req, outbox'[k].i)) =>
              LET e == outbox'[k]
                  h == History(e.to)
                  a == appended[e.to]
              IN  /\ Len(h) > 0
                  /\ h[Len(h)] = Turn("assistant", e.text)
                  /\ Len(a) > 0
                  /\ a[Len(a)].role = "assistant"
                  /\ SameExchange(a[Len(a)], e)
                  /\ conversations' = conversations ]_vars

\* a reply of the provider was sent
C16_Witness ==
    \E k \in DOMAIN outbox :
        /\ ProviderSucceeded(outbox[k].req, outbox[k].i)
        /\ outbox[k].text = "we sell soap"
        /\ History(outbox[k].to) # <<>>

\* no request is between the recording of an inbound text and that of its reply
NoMessageBeingHandled == \A r \in Requests : reqs[r].pc \notin {"generate", "provider", "record"}

\* the Turns of s are user and assistant Turns, by turns
Alternates(s) ==
    /\ \A k \in DOMAIN s : s[k].role \in {"user", "assistant"}
    /\ \A k \in DOMAIN s : k < Len(s) => s[k].role # s[k + 1].role

\* C18: when no message is being handled every stored history alternates between
\* user and assistant Turns and, unless empty, ends with an assistant Turn; what
\* follows the system message of a provider request alternates too.
C18_HistoriesAlternate ==
    /\ NoMessageBeingHandled =>
          \A u \in Users :
             LET h == History(u)
             IN  /\ Alternates(h)
                 /\ h # <<>> => h[Len(h)].role = "assistant"
    /\ \A c \in DOMAIN providerLog : Alternates(Tail(providerLog[c].messages))

\* at rest after two exchanges of one user, the second of which went to the
\* provider with the first exchange in its context
C18_Witness ==
    /\ NoMessageBeingHandled
    /\ \E u \in Users : Len(History(u)) >= 4
    /\ \E c \in DOMAIN providerLog : Len(providerLog[c].messages) >= 4

\* the user whose sub-event request r is handling in the step
HandlesFor(r, u) ==
    /\ reqs[r].pc \in {"loop", "record"}
    /\ reqs'[r] # reqs[r]
    /\ reqs'[r].sender_id = u

\* C19: a step that handles a sub-event of user A leaves the stored history of
\* every other user, and the set of known users but for A, as they were; and
\* every Turn of a provider request built for A was appended for A.
C19_OtherUsersUntouched ==
    [][ /\ \A B \in Users :
              \/ \E r \in Requests : HandlesFor(r, B)
              \/ /\ (B \in DOMAIN conversations') = (B \in DOMAIN conversations)
                 /\ B \in DOMAIN conversations => conversations'[B] = conversations[B]
                 /\ appended'[B] = appended[B]
        /\ \A c \in DOMAIN providerLog' :
              LET e == providerLog'[c]
              IN  \A k \in 2..Len(e.messages) :
                     \E j \in DOMAIN appended'[e.user] :
                        TurnOf(appended'[e.user][j]) = e.messages[k] ]_vars

\* a provider request is out for one user while another user has a history
C19_Witness ==
    \E c \in DOMAIN providerLog : \E B \in Users :
        /\ providerLog[c].outcome = "pending"
        /\ B # providerLog[c].user
        /\ History(B) # <<>>
        /\ History(providerLog[c].user) # <<>>

====
